---- MODULE Spec2Model ----
(***************************************************************************)
(* Model of src/fetchers/stats-fetcher.js: fetchStats (the profile         *)
(* assembler) and totalCommitsFetcher (the per-year commit aggregator).    *)
(*                                                                         *)
(* One action is one turn of the JavaScript event loop: the synchronous    *)
(* code that runs when fetchStats is called or when a network response     *)
(* arrives, together with every promise continuation (microtask) that the  *)
(* turn makes runnable, since those run before the next response is        *)
(* delivered.                                                              *)
(***************************************************************************)
EXTENDS Integers, Sequences, FiniteSets, TLC

\* ------------------------------------------------------------ bounds
MaxCount == 1        \* commit counts reported by the upstream API: 0..MaxCount
MaxYears == 2        \* contribution years reported by the primary query
NumInvocations == 2  \* invocations of fetchStats that exist in the model

Procs == 1 .. NumInvocations
Years == 1 .. MaxYears
Counts == 0 .. MaxCount

\* ------------------------------------------------------------ JS values
\* A JavaScript value that a commit total can take: a number, undefined or NaN.
Num(n) == [t |-> "number", v |-> n]
Undefined == [t |-> "undefined", v |-> 0]
NaN == [t |-> "NaN", v |-> 0]
IsNum(x) == x.t = "number"

\* a + b of JavaScript on numbers / undefined / NaN
JsAdd(a, b) == IF IsNum(a) /\ IsNum(b) THEN Num(a.v + b.v) ELSE NaN

\* o.field read by a destructuring pattern: a property of a plain object, and
\* undefined when o is a primitive number (the property is looked up on
\* Number.prototype, which has none of that name).
GetProp(o, field) == IF o.t = "object" THEN o[field] ELSE Undefined

CommitAggregate(pub, priv) ==
    [t |-> "object", totalPublicCommits |-> pub, totalPrivateCommits |-> priv]

\* ------------------------------------------------------------ sequences
RECURSIVE SeqsOver(_, _)
SeqsOver(S, n) ==
    IF n = 0 THEN {<<>>}
    ELSE LET shorter == SeqsOver(S, n - 1)
         IN  shorter \cup {Append(s, x) : s \in {q \in shorter : Len(q) = n - 1}, x \in S}

Range(s) == {s[k] : k \in 1 .. Len(s)}
NoDuplicates(s) == Cardinality(Range(s)) = Len(s)

RECURSIVE SumSeq(_)
SumSeq(s) == IF s = <<>> THEN 0 ELSE s[1] + SumSeq(Tail(s))

RECURSIVE SumOver(_, _)
SumOver(f(_), S) ==
    IF S = {} THEN 0
    ELSE LET x == CHOOSE y \in S : TRUE IN f(x) + SumOver(f, S \ {x})

\* ------------------------------------------------------------ inputs
\* Account identifiers: absent (undefined), the empty string, and strings over
\* a letter and a hyphen, one of them longer than the regex allows.
Absent == <<"undefined">>
LongName == [k \in 1 .. 40 |-> "a"]
Usernames ==
    { Absent, <<>>, <<"-">>, <<"a", "-">>, <<"a", "-", "-", "a">>, LongName,
      <<"a", "-", "a">> }

\* !username of JavaScript: true for undefined and for the empty string
IsFalsy(name) == name = Absent \/ name = <<>>

\* githubUsernameRegex.test(username):
\*   /^[a-z\d](?:[a-z\d]|-(?=[a-z\d])){0,38}$/i
\* an alphanumeric first character, then at most 38 characters, each one
\* alphanumeric or a hyphen that is followed by an alphanumeric.
githubUsernameRegexTest(name) ==
    /\ Len(name) >= 1
    /\ Len(name) <= 39
    /\ name[1] # "-"
    /\ \A k \in 2 .. Len(name) :
          name[k] = "-" => (k < Len(name) /\ name[k + 1] # "-")

\* ------------------------------------------------------------ upstream
NoData == [t |-> "none"]
NoErrors == <<>>

\* The fields of the primary query's user that are copied or summed without
\* regard to the flags; a few sample accounts.
UserSamples ==
    { [name |-> "", openIssues |-> 0, closedIssues |-> 0, pullRequests |-> 0,
       repositoriesContributedTo |-> 0, followers |-> 0,
       repositoriesTotalCount |-> 0, stargazers |-> <<>>],
      [name |-> "The Octocat", openIssues |-> 3, closedIssues |-> 7, pullRequests |-> 4,
       repositoriesContributedTo |-> 2, followers |-> 6,
       repositoriesTotalCount |-> 3, stargazers |-> <<5, 0, 12>>] }

\* contributionYears: distinct years, in any order
YearLists == {s \in SeqsOver(Years, MaxYears) : NoDuplicates(s)}

\* res.data.data.user of the primary query (lines 23-56)
Users ==
    { [t |-> "user", login |-> "octocat", name |-> u.name,
       totalCommitContributions |-> pub, restrictedContributionsCount |-> priv,
       contributionYears |-> ys,
       openIssues |-> u.openIssues, closedIssues |-> u.closedIssues,
       pullRequests |-> u.pullRequests,
       repositoriesContributedTo |-> u.repositoriesContributedTo,
       followers |-> u.followers,
       repositoriesTotalCount |-> u.repositoriesTotalCount,
       stargazers |-> u.stargazers] :
      u \in UserSamples, pub \in Counts, priv \in Counts, ys \in YearLists }

ErrorLists == { <<[message |-> ""]>>, <<[message |-> "Could not resolve to a User"]>> }

\* The envelope { data: { data?, errors? } } a resolved primary request
\* carries: a data payload, an error collection, or both.
PrimaryEnvelopes ==
    [data : Users, errors : {NoErrors}] \cup [data : Users \cup {NoData}, errors : ErrorLists]

\* res.data.data.user.contributionsCollection of a per-year query (lines 69-76)
YearData ==
    [t : {"contributions"}, totalCommitContributions : Counts,
     restrictedContributionsCount : Counts]

\* The data payload of the sample envelope that carries errors as well.
PartialData ==
    [t |-> "contributions", totalCommitContributions |-> MaxCount,
     restrictedContributionsCount |-> MaxCount]

\* The envelope a resolved per-year request carries: a data payload, an error
\* collection (errors: TRUE), or both.
YearEnvelopes ==
    [data : YearData, errors : {FALSE}] \cup [data : {PartialData, NoData}, errors : {TRUE}]

\* How a call of the retrying executor ends: it resolves with an envelope or
\* it rejects with the executor's own error.
ExecutorError == [t |-> "ExecutorError", type |-> "", message |-> "request failed"]

\* ------------------------------------------------------------ state
VARIABLES
    pc,                   \* where each invocation of fetchStats stands
    username,             \* fetchStats arguments
    count_private,
    include_all_commits,
    calls,                \* the requests handed to retryer, in the order issued
    primaryRes,           \* how the primary request settled
    user,                 \* const user = res.data.data.user
    stats,                \* const stats = {...}
    privateCommits,       \* let privateCommits
    totalPublicCommits,   \* locals of totalCommitsFetcher
    totalPrivateCommits,
    inflight,             \* years whose retryer call has not settled yet
    yearRes,              \* how the retryer call of each year settled
    allSettled,           \* state of the Promise.all of line 95
    aggregate,            \* what totalCommitsFetcher returned
    thrown,               \* the error fetchStats rejected with
    rankCalls             \* the arguments of each call of calculateRank

vars == <<pc, username, count_private, include_all_commits, calls, primaryRes, user, stats,
          privateCommits, totalPublicCommits, totalPrivateCommits, inflight,
          yearRes, allSettled, aggregate, thrown, rankCalls>>

NoUser == [t |-> "none"]
NoError == [t |-> "none", type |-> "", message |-> ""]
NotCalled == [t |-> "notCalled"]
NoRes == [t |-> "none"]
NoPrimaryRes == [t |-> "none", errors |-> NoErrors]

\* lines 133-141
InitialStats ==
    [name |-> "", totalPRs |-> 0, totalCommits |-> Num(0), totalIssues |-> 0,
     totalStars |-> 0, contributedTo |-> 0, rank |-> [level |-> "C", score |-> 0]]

\* The invocations in Started are about to be called with an identifier of
\* Names and flags of any value; the others are never called.
InitOf(Started, Names) ==
    /\ pc = [i \in Procs |-> IF i \in Started THEN "start" ELSE "idle"]
    /\ username \in [Procs -> Names \cup {Absent}]
    /\ count_private \in [Procs -> BOOLEAN]
    /\ include_all_commits \in [Procs -> BOOLEAN]
    /\ \A i \in Procs \ Started :
          /\ username[i] = Absent
          /\ ~count_private[i]
          /\ ~include_all_commits[i]
    /\ calls = [i \in Procs |-> <<>>]
    /\ primaryRes = [i \in Procs |-> NoPrimaryRes]
    /\ user = [i \in Procs |-> NoUser]
    /\ stats = [i \in Procs |-> InitialStats]
    /\ privateCommits = [i \in Procs |-> Num(0)]
    /\ totalPublicCommits = [i \in Procs |-> Num(0)]
    /\ totalPrivateCommits = [i \in Procs |-> Num(0)]
    /\ inflight = [i \in Procs |-> {}]
    /\ yearRes = [i \in Procs |-> [y \in Years |-> NoRes]]
    /\ allSettled = [i \in Procs |-> "none"]
    /\ aggregate = [i \in Procs |-> NotCalled]
    /\ thrown = [i \in Procs |-> NoError]
    /\ rankCalls = [i \in Procs |-> <<>>]

InitWith(Started) == InitOf(Started, Usernames)

Init == InitWith({1})

\* ------------------------------------------------------------ fetchStats
\* Variant of MissingParam: only an absent identifier is refused, the empty
\* string is let through.
MissingParamOnlyAbsent(name) == name = Absent

\* line 131: if (!username) throw new MissingParamError(["username"])
MissingParam(name) == IsFalsy(name)

MissingParamError == [t |-> "MissingParamError", type |-> "", message |-> "username"]

\* line 143: retryer(fetcher, { login: username })
PrimaryRequest(name) == [query |-> "userInfo", login |-> name, from_time |-> 0]

\* Variant of YearRequest: the period boundary is off by one year.
YearRequestNextYear(name, year) ==
    [query |-> "yearCommits", login |-> name, from_time |-> year + 1]

\* lines 96-100: retryer(fetchYearCommits, { login, from_time })
YearRequest(name, year) == [query |-> "yearCommits", login |-> name, from_time |-> year]

\* Variant of HasErrors: the error collection is looked at only when the
\* envelope has no data payload.
HasErrorsOnlyWithoutData(env) == env.errors # NoErrors /\ env.data.t = "none"

\* Variant of YearRequests: only the first year is requested when the
\* aggregator starts, as a loop that awaits each year in turn would do.
YearRequestsFirstOnly(name, years) == <<YearRequest(name, years[1])>>

\* line 95: contributionYears.map(...) runs every callback up to its await, so
\* the requests of all years are handed to retryer in list order
YearRequests(name, years) == [k \in 1 .. Len(years) |-> YearRequest(name, years[k])]

\* Variant of IncludeAllCommits: the aggregator is consulted whatever the flag.
IncludeAllCommitsAlways(flag) == TRUE

\* line 165: if (include_all_commits)
IncludeAllCommits(flag) == flag

\* line 145: if (res.data.errors)
HasErrors(env) == env.errors # NoErrors

\* Variant of UserNotFound: the error is raised without its classification.
UserNotFoundUnclassified(env) ==
    [t |-> "CustomError", type |-> "",
     message |-> IF env.errors[1].message # "" THEN env.errors[1].message
                 ELSE "Could not fetch user"]

\* lines 147-150: the message of the first error, or a default when it is empty
UserNotFound(env) ==
    [t |-> "CustomError", type |-> "USER_NOT_FOUND",
     message |-> IF env.errors[1].message # "" THEN env.errors[1].message
                 ELSE "Could not fetch user"]

\* Variant of TotalIssues: the closed issues are left out.
TotalIssuesOpenOnly(u) == u.openIssues

\* line 156
TotalIssues(u) == u.openIssues + u.closedIssues

\* lines 155-159
BaseStats(st, u) ==
    [st EXCEPT !.name = IF u.name # "" THEN u.name ELSE u.login,
               !.totalIssues = TotalIssues(u),
               !.totalCommits = Num(u.totalCommitContributions)]

\* line 161
BasePrivate(u) == Num(u.restrictedContributionsCount)

\* Variant of OverrideCommits: the aggregator's public total is added to the
\* current-period total instead of replacing it.
OverrideCommitsAdds(st, agg) ==
    [st EXCEPT !.totalCommits = JsAdd(@, GetProp(agg, "totalPublicCommits"))]

\* lines 166-167: the destructured totalPublicCommits replaces stats.totalCommits
OverrideCommits(st, agg) ==
    [st EXCEPT !.totalCommits = GetProp(agg, "totalPublicCommits")]

\* lines 166, 168: the destructured totalPrivateCommits replaces privateCommits
OverridePrivate(priv, agg) == GetProp(agg, "totalPrivateCommits")

\* lines 172-174
AddPrivate(st, priv, countPrivate) ==
    IF countPrivate THEN [st EXCEPT !.totalCommits = JsAdd(st.totalCommits, priv)]
    ELSE st

\* lines 179-181
TotalStars(u) == SumSeq(u.stargazers)

\* lines 176-181
DerivedTotals(st, u) ==
    [st EXCEPT !.totalPRs = u.pullRequests,
               !.contributedTo = u.repositoriesContributedTo,
               !.totalStars = TotalStars(u)]

\* lines 184-190: the argument of calculateRank
RankArgs(st, u) ==
    [totalCommits |-> st.totalCommits, totalRepos |-> u.repositoriesTotalCount,
     followers |-> u.followers, contributions |-> st.contributedTo,
     stargazers |-> st.totalStars, prs |-> st.totalPRs, issues |-> st.totalIssues]

\* The scoring function is not part of this file: its result is kept as an
\* uninterpreted term over its argument.
calculateRank(args) == [level |-> "calculateRank", score |-> args]

\* Variant of AssembleRest: the rank is computed before the private commits
\* are added.
AssembleRestRanksEarly(st, priv, u, countPrivate) ==
    LET s1 == DerivedTotals(st, u)
        s2 == AddPrivate(s1, priv, countPrivate)
    IN  [s2 EXCEPT !.rank = calculateRank(RankArgs(s1, u))]

\* lines 171-193: from the private inclusion to the return
AssembleRest(st, priv, u, countPrivate) ==
    LET s1 == AddPrivate(st, priv, countPrivate)
        s2 == DerivedTotals(s1, u)
    IN  [s2 EXCEPT !.rank = calculateRank(RankArgs(s2, u))]

\* --------------------------------------------------- totalCommitsFetcher
\* lines 86-89: what an identifier rejected by the regex gets back
InvalidUsernameResult == Num(0)

\* Variant of CatchResult: the catch block returns what was summed so far.
CatchResultPartial(pub, priv) == CommitAggregate(pub, priv)

\* lines 113-116: the result of the catch block
CatchResult(pub, priv) == CommitAggregate(Num(0), Num(0))

\* lines 105-108: the result when Promise.all fulfilled
SuccessResult(pub, priv) == CommitAggregate(pub, priv)

\* Variant of Accumulate: the count is assigned (=) instead of added (+=).
AccumulateOverwrites(total, count) == Num(count)

\* line 101 and line 102: total += count, read and written in one step
Accumulate(total, count) == JsAdd(total, Num(count))

\* lines 100-102 throw when the envelope has no data to read
HandlerThrows(env) == env.data.t = "none"

\* the async callback of line 95 ends rejected
CallbackRejected(r) ==
    \/ r.t = "rejected"
    \/ r.t = "resolved" /\ HandlerThrows(r.env)

\* ------------------------------------------------------------ actions
\* Variant of Locals: the accumulators are declared once at module scope and
\* shared by every invocation.
LocalsShared(i) == 1

\* lines 91-92: let totalPublicCommits / totalPrivateCommits are created by
\* each call of totalCommitsFetcher: invocation i adds into its own pair
Locals(i) == i

\* Variant of PromiseAll: the join waits until every callback has settled
\* before it rejects (Promise.allSettled followed by a check).
PromiseAllWaitsForAll(i, y, failed) ==
    IF inflight[i] # {y} THEN "pending"
    ELSE IF failed \/ \E z \in Years : CallbackRejected(yearRes[i][z]) THEN "rejected"
    ELSE "fulfilled"

\* Variant of PromiseAll: a join that only counts the callbacks that
\* fulfilled, so it never settles once one of them rejected.
PromiseAllCountsSuccesses(i, y, failed) ==
    IF failed \/ \E z \in Years : CallbackRejected(yearRes[i][z]) THEN "pending"
    ELSE IF inflight[i] = {y} THEN "fulfilled"
    ELSE "pending"

\* line 95: the state of a pending Promise.all once the callback of year y
\* has settled: rejected as soon as one callback rejects, fulfilled when the
\* last one fulfils
PromiseAll(i, y, failed) ==
    IF failed THEN "rejected"
    ELSE IF inflight[i] = {y} THEN "fulfilled"
    ELSE "pending"

\* fetchStats runs on from a point where stats and privateCommits hold st
\* and priv, down to its return (lines 171-193).
Returns(i, st, priv, u) ==
    LET final == AssembleRest(st, priv, u, count_private[i])
    IN  /\ stats' = [stats EXCEPT ![i] = final]
        /\ privateCommits' = [privateCommits EXCEPT ![i] = priv]
        \* calculateRank keeps the argument it was called with as its score
        /\ rankCalls' = [rankCalls EXCEPT ![i] = Append(@, final.rank.score)]
        /\ pc' = [pc EXCEPT ![i] = "returned"]

\* The await of line 166 resumes with the value agg (lines 166-169), and
\* fetchStats runs on to its return.
ResumesWith(i, agg, st, priv, u) ==
    /\ aggregate' = [aggregate EXCEPT ![i] = agg]
    /\ Returns(i, OverrideCommits(st, agg), OverridePrivate(priv, agg), u)

Throws(i, err) ==
    /\ thrown' = [thrown EXCEPT ![i] = err]
    /\ pc' = [pc EXCEPT ![i] = "thrown"]

\* fetchStats is called: lines 126-143, up to the await of the primary request.
Call(i) ==
    /\ pc[i] = "start"
    /\ IF MissingParam(username[i])
       THEN /\ Throws(i, MissingParamError)
            /\ UNCHANGED calls
       ELSE /\ calls' = [calls EXCEPT ![i] = Append(@, PrimaryRequest(username[i]))]
            /\ pc' = [pc EXCEPT ![i] = "awaitPrimary"]
            /\ UNCHANGED thrown
    /\ UNCHANGED <<username, count_private, include_all_commits, primaryRes, user,
                   stats, privateCommits, totalPublicCommits, totalPrivateCommits,
                   inflight, yearRes, allSettled, aggregate, rankCalls>>

\* The primary request rejects: the await of line 143 throws and nothing
\* in fetchStats catches it.
PrimaryRejects(i) ==
    /\ pc[i] = "awaitPrimary"
    /\ primaryRes' = [primaryRes EXCEPT ![i] = [t |-> "rejected", errors |-> NoErrors]]
    /\ Throws(i, ExecutorError)
    /\ UNCHANGED <<username, count_private, include_all_commits, calls, user, stats,
                   privateCommits, totalPublicCommits, totalPrivateCommits, inflight,
                   yearRes, allSettled, aggregate, rankCalls>>

\* The primary request resolves with an envelope: lines 143-166, and on to
\* the return when no per-year request has to be awaited.
PrimaryResolves(i, env) ==
    /\ pc[i] = "awaitPrimary"
    /\ primaryRes' = [primaryRes EXCEPT ![i] = [t |-> "resolved", errors |-> env.errors]]
    /\ IF HasErrors(env)
       THEN /\ Throws(i, UserNotFound(env))
            /\ UNCHANGED <<calls, user, stats, privateCommits, inflight, allSettled,
                           aggregate, rankCalls>>
       ELSE LET u == env.data
                st == BaseStats(stats[i], u)
                priv == BasePrivate(u)
                years == u.contributionYears
            IN  /\ user' = [user EXCEPT ![i] = u]
                /\ UNCHANGED thrown
                /\ IF ~IncludeAllCommits(include_all_commits[i])
                   THEN /\ Returns(i, st, priv, u)
                        /\ UNCHANGED <<calls, inflight, allSettled, aggregate>>
                   ELSE IF ~githubUsernameRegexTest(username[i])
                   THEN /\ ResumesWith(i, InvalidUsernameResult, st, priv, u)
                        /\ UNCHANGED <<calls, inflight, allSettled>>
                   ELSE IF years = <<>>
                   THEN \* Promise.all([]) is fulfilled at once
                        /\ allSettled' = [allSettled EXCEPT ![i] = "fulfilled"]
                        /\ ResumesWith(i, SuccessResult(totalPublicCommits[Locals(i)],
                                                         totalPrivateCommits[Locals(i)]),
                                       st, priv, u)
                        /\ UNCHANGED <<calls, inflight>>
                   ELSE \* line 95: every callback runs up to its await
                        /\ calls' = [calls EXCEPT ![i] =
                               @ \o YearRequests(username[i], years)]
                        /\ inflight' = [inflight EXCEPT ![i] = Range(years)]
                        /\ allSettled' = [allSettled EXCEPT ![i] = "pending"]
                        /\ stats' = [stats EXCEPT ![i] = st]
                        /\ privateCommits' = [privateCommits EXCEPT ![i] = priv]
                        /\ pc' = [pc EXCEPT ![i] = "awaitAggregator"]
                        /\ UNCHANGED <<aggregate, rankCalls>>
    /\ UNCHANGED <<username, count_private, include_all_commits, totalPublicCommits,
                   totalPrivateCommits, yearRes>>

\* The request of year y settles as r: the rest of its callback runs (lines
\* 100-102), then whatever that makes runnable: the Promise.all of line 95
\* settles when the callback rejects or was the last one to fulfil, then
\* totalCommitsFetcher returns (lines 105-116) and fetchStats runs on.
YearSettles(i, y, r) ==
    /\ y \in inflight[i]
    /\ inflight' = [inflight EXCEPT ![i] = @ \ {y}]
    /\ yearRes' = [yearRes EXCEPT ![i][y] = r]
    /\ LET failed == CallbackRejected(r)
           pub == IF failed THEN totalPublicCommits[Locals(i)]
                  ELSE Accumulate(totalPublicCommits[Locals(i)],
                                  r.env.data.totalCommitContributions)
           priv == IF failed THEN totalPrivateCommits[Locals(i)]
                   ELSE Accumulate(totalPrivateCommits[Locals(i)],
                                   r.env.data.restrictedContributionsCount)
           join == IF allSettled[i] = "pending" THEN PromiseAll(i, y, failed)
                   ELSE allSettled[i]
       IN  /\ totalPublicCommits' = [totalPublicCommits EXCEPT ![Locals(i)] = pub]
           /\ totalPrivateCommits' = [totalPrivateCommits EXCEPT ![Locals(i)] = priv]
           /\ allSettled' = [allSettled EXCEPT ![i] = join]
           /\ IF allSettled[i] # "pending" \/ join = "pending"
              THEN \* the aggregator has returned already, or still waits:
                   \* only its locals change
                   UNCHANGED <<aggregate, stats, privateCommits, rankCalls, pc>>
              ELSE IF join = "rejected"
              THEN ResumesWith(i, CatchResult(pub, priv), stats[i],
                               privateCommits[i], user[i])
              ELSE ResumesWith(i, SuccessResult(pub, priv), stats[i],
                               privateCommits[i], user[i])
    /\ UNCHANGED <<username, count_private, include_all_commits, calls, primaryRes, user,
                   thrown>>

YearRejects(i, y) == YearSettles(i, y, [t |-> "rejected", env |-> [data |-> NoData, errors |-> FALSE]])

YearResolves(i, y, env) == YearSettles(i, y, [t |-> "resolved", env |-> env])

PrimaryResponds(i) ==
    /\ pc[i] = "awaitPrimary"
    /\ \/ PrimaryRejects(i)
       \/ \E env \in PrimaryEnvelopes : PrimaryResolves(i, env)

YearResponds(i) ==
    \E y \in inflight[i] :
        \/ YearRejects(i, y)
        \/ \E env \in YearEnvelopes : YearResolves(i, y, env)

Next ==
    \E i \in Procs :
        \/ Call(i)
        \/ PrimaryResponds(i)
        \/ YearResponds(i)

Spec == Init /\ [][Next]_vars

\* ------------------------------------------------------------ properties
ZeroAggregate == CommitAggregate(Num(0), Num(0))

Returned(i) == pc[i] = "returned"

\* The per-year requests issued so far, in order.
YearCalls(i) == SelectSeq(calls[i], LAMBDA c : c.query = "yearCommits")

\* The query of a year failed: the executor rejected, or the response has no
\* data payload to read. (A response that has both errors and data is neither
\* a failure nor a success in these definitions.)
QueryFailed(r) == r.t = "rejected" \/ (r.t = "resolved" /\ r.env.data.t = "none")

\* The query of a year succeeded: a data payload and no error collection.
QuerySucceeded(r) == r.t = "resolved" /\ r.env.data.t # "none" /\ ~r.env.errors

WellFormedRun(i) == include_all_commits[i] /\ githubUsernameRegexTest(username[i])

ReportedYears(i) == Range(user[i].contributionYears)

YearPublic(i, y) == yearRes[i][y].env.data.totalCommitContributions
YearPrivate(i, y) == yearRes[i][y].env.data.restrictedContributionsCount

\* C1: in every returned profile totalCommits is pub (no flag), pub + priv
\* (count_private only), P (include_all_commits only) or P + R (both), where
\* (pub, priv) are the primary query's current-period counts and (P, R) the
\* aggregate totalCommitsFetcher returned: both parts from the same source.
C1_TotalCommitsByFlags ==
    \A i \in Procs :
        (Returned(i) /\ (include_all_commits[i] => aggregate[i].t = "object")) =>
            LET pub == Num(user[i].totalCommitContributions)
                priv == Num(user[i].restrictedContributionsCount)
                P == aggregate[i].totalPublicCommits
                R == aggregate[i].totalPrivateCommits
                total == stats[i].totalCommits
            IN  /\ (~include_all_commits[i] /\ ~count_private[i]) => total = pub
                /\ (~include_all_commits[i] /\ count_private[i]) => total = JsAdd(pub, priv)
                /\ (include_all_commits[i] /\ ~count_private[i]) => total = P
                /\ (include_all_commits[i] /\ count_private[i]) => total = JsAdd(P, R)

\* a run with both flags in which the aggregate (2, 1) replaced the primary
\* query's own (1, 0)
C1_Witness ==
    \E i \in Procs :
        /\ Returned(i) /\ include_all_commits[i] /\ count_private[i]
        /\ aggregate[i] = CommitAggregate(Num(2), Num(1))
        /\ user[i].totalCommitContributions = 1
        /\ user[i].restrictedContributionsCount = 0
        /\ stats[i].totalCommits = Num(3)

\* C2: with a well-formed handle, once the query of at least one year has
\* failed the aggregator has returned exactly {0, 0}, whichever other years
\* succeeded before or after it: never a partial sum.
C2_AllOrNothing ==
    \A i \in Procs :
        (WellFormedRun(i) /\ \E y \in Years : QueryFailed(yearRes[i][y])) =>
            aggregate[i] = ZeroAggregate

\* one year succeeded with a positive count, then another one failed
C2_Witness ==
    \E i \in Procs :
        /\ WellFormedRun(i)
        /\ \E y \in Years : QueryFailed(yearRes[i][y])
        /\ \E y \in Years : QuerySucceeded(yearRes[i][y]) /\ YearPublic(i, y) > 0
        /\ totalPublicCommits[i] # Num(0)
        /\ aggregate[i] = ZeroAggregate

\* C5: when the query of every reported year succeeded, the aggregate is the
\* sum of the public counts and the sum of the private counts of all years,
\* for every order of the year list and every order of arrival; for an
\* empty year list it is {0, 0} and no per-year request is issued.
C5_SumOfAllYears ==
    \A i \in Procs :
        (/\ WellFormedRun(i)
         /\ user[i].t = "user"
         /\ \A y \in ReportedYears(i) : QuerySucceeded(yearRes[i][y])) =>
            /\ aggregate[i] =
                  CommitAggregate(Num(SumOver(LAMBDA y : YearPublic(i, y), ReportedYears(i))),
                                  Num(SumOver(LAMBDA y : YearPrivate(i, y), ReportedYears(i))))
            /\ ReportedYears(i) = {} => (aggregate[i] = ZeroAggregate /\ YearCalls(i) = <<>>)

\* two years passed in descending order, both answered, sums 2 and 1
C5_Witness ==
    \E i \in Procs :
        /\ WellFormedRun(i)
        /\ user[i].t = "user"
        /\ user[i].contributionYears = <<2, 1>>
        /\ \A y \in ReportedYears(i) : QuerySucceeded(yearRes[i][y])
        /\ aggregate[i] = CommitAggregate(Num(2), Num(1))

\* The aggregator was called and something failed inside it: the handle is
\* rejected by the regex or the query of some year failed.
AggregatorFailed(i) ==
    /\ include_all_commits[i]
    /\ user[i].t = "user"
    /\ \/ ~githubUsernameRegexTest(username[i])
       \/ \E y \in Years : QueryFailed(yearRes[i][y])

\* C3: a failure inside the aggregator never makes fetchStats fail: the run
\* returns a profile in which the aggregator contributes zero to totalCommits.
C3_AggregatorFailureDegradesToZero ==
    \A i \in Procs :
        AggregatorFailed(i) =>
            /\ Returned(i)
            /\ thrown[i] = NoError
            /\ stats[i].totalCommits = Num(0)

\* C4: for an identifier the regex rejects, the aggregator returns the zeroed
\* aggregate {0, 0} and issues no per-year request.
C4_MalformedHandleGivesZeroAggregate ==
    \A i \in Procs :
        (include_all_commits[i] /\ user[i].t = "user"
            /\ ~githubUsernameRegexTest(username[i])) =>
            /\ aggregate[i] = ZeroAggregate
            /\ YearCalls(i) = <<>>

\* C6: when the primary response carries an error collection, fetchStats
\* fails with the CustomError classified USER_NOT_FOUND, the aggregator is
\* not called, no per-year request is issued, calculateRank is not called and
\* no profile is returned, whatever the flags.
C6_PrimaryErrorAbortsRun ==
    \A i \in Procs :
        (primaryRes[i].t = "resolved" /\ primaryRes[i].errors # <<>>) =>
            /\ pc[i] = "thrown"
            /\ thrown[i].t = "CustomError"
            /\ thrown[i].type = "USER_NOT_FOUND"
            /\ thrown[i].message \in {primaryRes[i].errors[1].message, "Could not fetch user"}
            /\ thrown[i].message # ""
            /\ aggregate[i] = NotCalled
            /\ allSettled[i] = "none"
            /\ calls[i] = <<PrimaryRequest(username[i])>>
            /\ rankCalls[i] = <<>>
            /\ stats[i] = InitialStats

\* an error collection with an empty message, both flags set
C6_Witness ==
    \E i \in Procs :
        /\ primaryRes[i].t = "resolved"
        /\ primaryRes[i].errors = <<[message |-> ""]>>
        /\ include_all_commits[i] /\ count_private[i]
        /\ thrown[i].message = "Could not fetch user"

\* C7: with an empty or absent identifier fetchStats fails with the
\* MissingParamError and issues no request at all.
C7_MissingParamNoNetwork ==
    \A i \in Procs :
        (IsFalsy(username[i]) /\ pc[i] \notin {"idle", "start"}) =>
            /\ pc[i] = "thrown"
            /\ thrown[i] = MissingParamError
            /\ calls[i] = <<>>

\* the empty string was passed and the call has failed
C7_Witness ==
    \E i \in Procs :
        username[i] = <<>> /\ pc[i] = "thrown" /\ thrown[i] = MissingParamError

\* C8 as stated: a run that fails, fails with the MissingParamError or with
\* the CustomError classified USER_NOT_FOUND, and with no other error.
C8_OnlyTwoErrorKinds ==
    \A i \in Procs :
        pc[i] = "thrown" =>
            \/ thrown[i].t = "MissingParamError"
            \/ thrown[i].t = "CustomError" /\ thrown[i].type = "USER_NOT_FOUND"

\* C8 amended: a run that fails, fails with the MissingParamError, with the
\* CustomError classified USER_NOT_FOUND, or with the error the executor
\* rejected the primary request with, and with that one exactly when the
\* primary request was rejected; no outcome of a per-year request makes the
\* run fail.
C8_ErrorKindsWithExecutorRejection ==
    \A i \in Procs :
        /\ (pc[i] = "thrown") = (thrown[i] # NoError)
        /\ pc[i] = "thrown" =>
              \/ thrown[i].t = "MissingParamError"
              \/ thrown[i].t = "CustomError" /\ thrown[i].type = "USER_NOT_FOUND"
              \/ thrown[i] = ExecutorError
        /\ (thrown[i] = ExecutorError) = (primaryRes[i].t = "rejected")
        /\ (\E y \in Years : yearRes[i][y].t # "none") => thrown[i] = NoError

\* the primary request was rejected and the run failed with that error
C8_Witness ==
    \E i \in Procs :
        primaryRes[i].t = "rejected" /\ pc[i] = "thrown" /\ thrown[i] = ExecutorError

\* C9: totalCommits of every returned profile is a non-negative integer.
C9_TotalCommitsIsNatural ==
    \A i \in Procs :
        Returned(i) => (IsNum(stats[i].totalCommits) /\ stats[i].totalCommits.v >= 0)

\* C10: in every returned profile totalIssues, totalStars, totalPRs and
\* contributedTo are those of the primary response, whatever the flags and
\* whatever became of the aggregator.
C10_DerivedTotalsFromPrimaryAlone ==
    \A i \in Procs :
        Returned(i) =>
            /\ stats[i].totalIssues = user[i].openIssues + user[i].closedIssues
            /\ stats[i].totalStars = SumSeq(user[i].stargazers)
            /\ stats[i].totalPRs = user[i].pullRequests
            /\ stats[i].contributedTo = user[i].repositoriesContributedTo

\* open 3 + closed 7 and stars 5 + 0 + 12, in a run whose aggregator degraded
C10_Witness ==
    \E i \in Procs :
        /\ Returned(i)
        /\ count_private[i]
        /\ \E y \in Years : QueryFailed(yearRes[i][y])
        /\ aggregate[i] = ZeroAggregate
        /\ stats[i].totalIssues = 10
        /\ stats[i].totalStars = 17
        /\ stats[i].totalPRs = 4
        /\ stats[i].contributedTo = 2

\* The years of the per-year requests issued so far, in order.
YearsRequested(i) == [k \in 1 .. Len(YearCalls(i)) |-> YearCalls(i)[k].from_time]

\* C12: once the aggregator runs with a well-formed handle, the per-year
\* requests issued are exactly those of the primary query's contribution-year
\* list, each year once, for the account of the run; the log never grows
\* afterwards, whatever fails (no retry by the aggregator).
C12_QueriedYearsAreReportedYears ==
    \A i \in Procs :
        (WellFormedRun(i) /\ user[i].t = "user") =>
            /\ YearsRequested(i) = user[i].contributionYears
            /\ \A k \in 1 .. Len(YearCalls(i)) : YearCalls(i)[k].login = username[i]
            /\ Len(calls[i]) = 1 + Len(user[i].contributionYears)

\* two years reported, one query failed, one was answered: two requests
C12_Witness ==
    \E i \in Procs :
        /\ WellFormedRun(i) /\ user[i].t = "user"
        /\ user[i].contributionYears = <<2, 1>>
        /\ QueryFailed(yearRes[i][2])
        /\ QuerySucceeded(yearRes[i][1])
        /\ YearsRequested(i) = <<2, 1>>

\* C13: a per-year request is issued, and the aggregator is called, only
\* after the primary request (the first request of the run) has resolved with
\* an envelope free of errors.
C13_PrimaryBeforeAggregator ==
    \A i \in Procs :
        (YearCalls(i) # <<>> \/ aggregate[i].t # "notCalled" \/ allSettled[i] # "none") =>
            /\ primaryRes[i].t = "resolved"
            /\ primaryRes[i].errors = <<>>
            /\ user[i].t = "user"
            /\ calls[i][1] = PrimaryRequest(username[i])

\* the aggregator is waiting for its per-year requests
C13_Witness ==
    \E i \in Procs :
        /\ pc[i] = "awaitAggregator"
        /\ Len(YearCalls(i)) = 2
        /\ primaryRes[i].t = "resolved"

\* C14: with a well-formed handle the requests of all reported years are
\* issued together when the aggregator starts: every reported year is in
\* flight or settled, so no response is processed before a request is issued.
C14_AllYearsIssuedAtOnce ==
    \A i \in Procs :
        (WellFormedRun(i) /\ user[i].t = "user") =>
            \A y \in ReportedYears(i) :
                /\ y \in inflight[i] \/ yearRes[i][y].t # "none"
                /\ \E k \in 1 .. Len(YearCalls(i)) : YearCalls(i)[k].from_time = y

\* both requests are out and no response has been processed yet
C14_Witness ==
    \E i \in Procs :
        /\ WellFormedRun(i) /\ user[i].t = "user"
        /\ inflight[i] = {1, 2}
        /\ \A y \in Years : yearRes[i][y].t = "none"
        /\ Len(YearCalls(i)) = 2

PrimaryCalls(i) == SelectSeq(calls[i], LAMBDA c : c.query = "userInfo")

\* C15: a run with a non-empty identifier issues exactly one primary request;
\* without include_all_commits the aggregator is not called and no per-year
\* request is issued, whatever years the primary query reports.
C15_OnePrimaryAndNoAggregatorWithoutFlag ==
    \A i \in Procs :
        (~IsFalsy(username[i]) /\ pc[i] \notin {"idle", "start"}) =>
            /\ PrimaryCalls(i) = <<PrimaryRequest(username[i])>>
            /\ ~include_all_commits[i] =>
                  /\ aggregate[i].t = "notCalled"
                  /\ allSettled[i] = "none"
                  /\ inflight[i] = {}
                  /\ YearCalls(i) = <<>>

\* two years reported, the flag is off, the run has returned
C15_Witness ==
    \E i \in Procs :
        /\ Returned(i)
        /\ ~include_all_commits[i]
        /\ Len(user[i].contributionYears) = 2
        /\ Len(calls[i]) = 1

\* C16: a per-year response that carries an error collection is a failure of
\* that year's query, so the aggregate is {0, 0}, whether or not the response
\* carries data as well.
C16_ErrorEnvelopeIsFailure ==
    \A i \in Procs :
        (WellFormedRun(i) /\ \E y \in Years :
            yearRes[i][y].t = "resolved" /\ yearRes[i][y].env.errors) =>
            aggregate[i] = ZeroAggregate

\* C18: calculateRank is called once in a run that returns, after the
\* aggregator (if called) has returned and both flags are applied: its
\* argument holds the totals of the returned profile, and its result is the
\* profile's rank; it is not called in a run that has not returned.
C18_RankCalledOnceAndLast ==
    \A i \in Procs :
        /\ ~Returned(i) => rankCalls[i] = <<>>
        /\ Returned(i) =>
              /\ Len(rankCalls[i]) = 1
              /\ rankCalls[i][1] =
                    [totalCommits |-> stats[i].totalCommits,
                     totalRepos |-> user[i].repositoriesTotalCount,
                     followers |-> user[i].followers,
                     contributions |-> stats[i].contributedTo,
                     stargazers |-> stats[i].totalStars,
                     prs |-> stats[i].totalPRs,
                     issues |-> stats[i].totalIssues]
              /\ stats[i].rank = calculateRank(rankCalls[i][1])
              /\ include_all_commits[i] => aggregate[i].t # "notCalled"

\* both flags set, aggregate (2, 1): calculateRank saw totalCommits 3
C18_Witness ==
    \E i \in Procs :
        /\ Returned(i) /\ include_all_commits[i] /\ count_private[i]
        /\ aggregate[i] = CommitAggregate(Num(2), Num(1))
        /\ Len(rankCalls[i]) = 1
        /\ rankCalls[i][1].totalCommits = Num(3)

\* a response that is delivered to invocation i in this step
LateResponse(i, y) == Returned(i) /\ y \in inflight[i] /\ y \notin inflight'[i]

\* C19: when the query of a year fails the aggregator has returned {0, 0} and
\* fetchStats has returned, though other queries may still be in flight; those
\* are not cancelled (their responses can still be delivered), the handler of
\* a late response still adds to the local accumulators, and neither the
\* aggregate returned nor the profile changes any more.
C19_LateResponsesChangeNothingReturned ==
    /\ [](\A i \in Procs :
            /\ (WellFormedRun(i) /\ \E y \in Years : QueryFailed(yearRes[i][y])) =>
                  (aggregate[i] = ZeroAggregate /\ Returned(i))
            /\ (Returned(i) /\ inflight[i] # {}) => ENABLED YearResponds(i))
    /\ [][\A i \in Procs : \A y \in Years :
            LateResponse(i, y) =>
                /\ aggregate'[i] = aggregate[i]
                /\ stats'[i] = stats[i]
                /\ pc'[i] = pc[i]
                /\ rankCalls'[i] = rankCalls[i]
                /\ QuerySucceeded(yearRes'[i][y]) =>
                      /\ totalPublicCommits'[i] =
                            JsAdd(totalPublicCommits[i],
                                  Num(yearRes'[i][y].env.data.totalCommitContributions))
                      /\ totalPrivateCommits'[i] =
                            JsAdd(totalPrivateCommits[i],
                                  Num(yearRes'[i][y].env.data.restrictedContributionsCount))]_vars

\* the run has returned a degraded profile while a query is still in flight
C19_Witness ==
    \E i \in Procs :
        /\ Returned(i)
        /\ aggregate[i] = ZeroAggregate
        /\ \E y \in Years : QueryFailed(yearRes[i][y])
        /\ inflight[i] # {}
        /\ ENABLED YearResponds(i)

\* Spec with the scheduling the run-time gives: a called function runs, and
\* a request handed to the retrying executor is eventually settled (the
\* hypothesis of C17). Each of Call(i), PrimaryResponds(i) and YearResponds(i)
\* stays enabled until it is taken, so weak fairness of every one of them
\* implies the weak fairness of Next that is assumed here.
FairSpec == Spec /\ WF_vars(Next)

Completed(i) == pc[i] \in {"returned", "thrown"}

\* C17: when every request is eventually settled, every invocation of
\* fetchStats eventually returns a profile or fails with an error, for any
\* number of years and any mix of answered and failed per-year queries.
C17_EveryInvocationCompletes ==
    \A i \in Procs : (pc[i] # "idle") ~> Completed(i)

\* a run over two years, one answered and one failed, has completed
C17_Witness ==
    \E i \in Procs :
        /\ Completed(i)
        /\ Len(YearCalls(i)) = 2
        /\ \E y \in Years : QueryFailed(yearRes[i][y])
        /\ \E y \in Years : QuerySucceeded(yearRes[i][y])

\* ------------------------------------------------ concurrent invocations
\* Two invocations of fetchStats for two different accounts, both with
\* well-formed handles, run in the same event loop with any flags; their
\* requests and responses interleave in every possible way.
InitConc ==
    /\ InitOf({1, 2}, {<<"a", "-", "a">>, <<"b">>})
    /\ username[1] = <<"a", "-", "a">>
    /\ username[2] = <<"b">>

\* The primary responses of the concurrent runs: one sample account with no
\* year or two years of history, or an error collection.
ConcPrimaryEnvelopes ==
    { env \in PrimaryEnvelopes :
        \/ env.data.t = "none"
        \/ /\ env.errors = NoErrors
           /\ env.data.name # ""
           /\ env.data.totalCommitContributions = 1
           /\ env.data.restrictedContributionsCount = 1
           /\ env.data.contributionYears \in {<<>>, <<1, 2>>} }

PrimaryRespondsConc(i) ==
    /\ pc[i] = "awaitPrimary"
    /\ \/ PrimaryRejects(i)
       \/ \E env \in ConcPrimaryEnvelopes : PrimaryResolves(i, env)

NextConc ==
    \E i \in Procs :
        \/ Call(i)
        \/ PrimaryRespondsConc(i)
        \/ YearResponds(i)

ConcSpec == InitConc /\ [][NextConc]_vars

\* Everything invocation i owns.
LocalState(i) ==
    <<pc[i], username[i], count_private[i], include_all_commits[i], calls[i],
      primaryRes[i], user[i], stats[i], privateCommits[i], totalPublicCommits[i],
      totalPrivateCommits[i], inflight[i], yearRes[i], allSettled[i], aggregate[i],
      thrown[i], rankCalls[i]>>

\* What totalCommitsFetcher returns to invocation i when it runs alone and
\* receives the responses invocation i received: a function of the handle and
\* of the responses of its own years only.
AloneAggregate(i) ==
    IF ~githubUsernameRegexTest(username[i]) THEN Num(0)
    ELSE IF \E y \in ReportedYears(i) : QueryFailed(yearRes[i][y]) THEN ZeroAggregate
    ELSE CommitAggregate(Num(SumOver(LAMBDA y : YearPublic(i, y), ReportedYears(i))),
                         Num(SumOver(LAMBDA y : YearPrivate(i, y), ReportedYears(i))))

\* The totalCommits invocation i returns when it runs alone.
AloneTotalCommits(i) ==
    LET pub == IF include_all_commits[i]
               THEN GetProp(AloneAggregate(i), "totalPublicCommits")
               ELSE Num(user[i].totalCommitContributions)
        priv == IF include_all_commits[i]
                THEN GetProp(AloneAggregate(i), "totalPrivateCommits")
                ELSE Num(user[i].restrictedContributionsCount)
    IN  IF count_private[i] THEN JsAdd(pub, priv) ELSE pub

\* The error invocation i fails with when it runs alone.
AloneError(i) ==
    IF IsFalsy(username[i]) THEN MissingParamError
    ELSE IF primaryRes[i].t = "rejected" THEN ExecutorError
    ELSE [t |-> "CustomError", type |-> "USER_NOT_FOUND",
          message |-> IF primaryRes[i].errors[1].message # ""
                      THEN primaryRes[i].errors[1].message
                      ELSE "Could not fetch user"]

\* C11: under every interleaving of two invocations for different accounts,
\* a step of one invocation changes nothing the other one owns, and each
\* invocation returns the profile, or fails with the error, that it gets when
\* it runs alone and receives the same responses.
C11_ConcurrentInvocationsDoNotInterfere ==
    /\ [](\A i \in Procs :
            /\ Returned(i) =>
                  /\ stats[i].totalCommits = AloneTotalCommits(i)
                  /\ include_all_commits[i] => aggregate[i] = AloneAggregate(i)
                  /\ stats[i].name = (IF user[i].name # "" THEN user[i].name
                                      ELSE user[i].login)
                  /\ stats[i].totalIssues = user[i].openIssues + user[i].closedIssues
                  /\ stats[i].totalStars = SumSeq(user[i].stargazers)
                  /\ stats[i].totalPRs = user[i].pullRequests
                  /\ stats[i].contributedTo = user[i].repositoriesContributedTo
                  /\ stats[i].rank.score.totalCommits = AloneTotalCommits(i)
                  /\ thrown[i] = NoError
            /\ pc[i] = "thrown" => thrown[i] = AloneError(i))
    /\ [][\A i \in Procs : \A j \in Procs \ {i} :
            LocalState(i)' # LocalState(i) => LocalState(j)' = LocalState(j)]_vars

\* both invocations went through the aggregator and returned different totals
C11_Witness ==
    /\ Returned(1) /\ Returned(2)
    /\ aggregate[1] = CommitAggregate(Num(2), Num(0))
    /\ aggregate[2] = CommitAggregate(Num(0), Num(2))
    /\ stats[1].totalCommits = Num(2)
    /\ stats[2].totalCommits = Num(2)
    /\ count_private[2] /\ ~count_private[1]

====
